---- MODULE Spec2Model ----
(***************************************************************************)
(* Alumni Connect backend (src/app.py): a Flask application keeping seven  *)
(* in-memory lists (users, alumni, events, jobs, donations, posts,         *)
(* messages) behind JSON request handlers.                                 *)
(*                                                                         *)
(* Conventions of the model                                                *)
(*   - a Python dict is a TLA+ function whose domain is its set of keys;   *)
(*   - a Python str is the sequence of its ASCII codes, so that lower(),   *)
(*     len(), equality and the e-mail pattern are computed, not assumed;   *)
(*   - datetime.now() is the integer variable now (one unit = one day),    *)
(*     advanced by Tick;                                                   *)
(*   - req is the request a handler was called with and resp the           *)
(*     (status, body) pair it returned;                                    *)
(*   - tokens holds the grants handed out: each token the server signed,  *)
(*     with the id of the user it was returned with and the time of issue; *)
(*   - issued is a history variable: for each collection, the highest id   *)
(*     a create has assigned so far.  No handler reads it;                 *)
(*   - inflight is, for each thread of the server, the record a create     *)
(*     has built and not yet appended.                                     *)
(***************************************************************************)
EXTENDS Integers, Sequences, FiniteSets, TLC

VARIABLES users, alumni, events, jobs, donations, posts, messages,
          now, tokens, req, resp, issued, inflight

stores == <<users, alumni, events, jobs, donations, posts, messages>>
vars == <<users, alumni, events, jobs, donations, posts, messages,
          now, tokens, req, resp, issued, inflight>>

(***************************************************************************)
(* Bounds of the model.                                                    *)
(***************************************************************************)
MaxUsers == 2
MaxTokens == 2
MaxTime == 60
MaxRecords == 2
MaxStamp == 29

(***************************************************************************)
(* Program constants.                                                      *)
(***************************************************************************)
TOKEN_DAYS == 30
MIN_PASSWORD == 6

(***************************************************************************)
(* Strings.                                                                *)
(***************************************************************************)
IsUpper(c) == c \in 65..90
IsLowerCh(c) == c \in 97..122
IsAlpha(c) == IsUpper(c) \/ IsLowerCh(c)
IsDigit(c) == c \in 48..57

\* str.lower() on ASCII text
Lower(s) == [i \in 1..Len(s) |-> IF IsUpper(s[i]) THEN s[i] + 32 ELSE s[i]]

\* [a-zA-Z0-9._%+-]
IsLocalCh(c) == IsAlpha(c) \/ IsDigit(c) \/ c \in {46, 95, 37, 43, 45}
\* [a-zA-Z0-9.-]
IsDomainCh(c) == IsAlpha(c) \/ IsDigit(c) \/ c \in {46, 45}

\* re.match(r'^[a-zA-Z0-9._%+-]+@[a-zA-Z0-9.-]+\.[a-zA-Z]{2,}$', email):
\* some position i holds '@' and some later position j holds '.', with a
\* non-empty local part before i, a non-empty domain between them and at
\* least two letters after j up to the end n; '$' also matches just before
\* one trailing newline.
validate_email(email) ==
    \E n \in {Len(email)} \cup
             (IF Len(email) > 0 /\ email[Len(email)] = 10
              THEN {Len(email) - 1} ELSE {}) :
      \E i \in 2..n : \E j \in (i + 2)..(n - 2) :
        /\ email[i] = 64
        /\ email[j] = 46
        /\ \A k \in 1..(i - 1) : IsLocalCh(email[k])
        /\ \A k \in (i + 1)..(j - 1) : IsDomainCh(email[k])
        /\ \A k \in (j + 1)..n : IsAlpha(email[k])

(***************************************************************************)
(* Dicts and responses.                                                    *)
(***************************************************************************)
EmptyDict == [k \in {} |-> 0]

\* not data.get(field): the key is absent or its value is the empty string
Falsy(data, field) == field \notin DOMAIN data \/ data[field] = <<>>

\* data.get(field, default)
GetOr(data, field, default) ==
    IF field \in DOMAIN data THEN data[field] ELSE default

\* a loop that keeps going and reports the last lacking field
FirstMissingLast(data, required_fields) ==
    IF \E i \in 1..Len(required_fields) : Falsy(data, required_fields[i])
    THEN CHOOSE i \in 1..Len(required_fields) :
           /\ Falsy(data, required_fields[i])
           /\ \A j \in (i + 1)..Len(required_fields) :
                ~Falsy(data, required_fields[j])
    ELSE 0

\* the first field of required_fields, in order, that data lacks (0: none)
FirstMissing(data, required_fields) ==
    IF \E i \in 1..Len(required_fields) : Falsy(data, required_fields[i])
    THEN CHOOSE i \in 1..Len(required_fields) :
           /\ Falsy(data, required_fields[i])
           /\ \A j \in 1..(i - 1) : ~Falsy(data, required_fields[j])
    ELSE 0

\* jsonify({"error": msg}), status
Err(status, msg) == [status |-> status, error |-> msg, data |-> EmptyDict]
\* jsonify(body), status
Ok(status, body) == [status |-> status, error |-> "", data |-> body]

RequiredMsg(field) == field \o " is required"

\* next((x for x in coll if x['id'] == id), None), as an index (0: None)
FindById(coll, id) ==
    IF \E i \in 1..Len(coll) : coll[i]["id"] = id
    THEN CHOOSE i \in 1..Len(coll) :
           /\ coll[i]["id"] = id
           /\ \A j \in 1..(i - 1) : coll[j]["id"] # id
    ELSE 0

\* list.remove(x) for the element found at index i
RemoveAt(coll, i) ==
    [j \in 1..(Len(coll) - 1) |-> IF j < i THEN coll[j] ELSE coll[j + 1]]

\* {k: v for k, v in user.items() if k != 'password'}
StripPassword(user) == [k \in DOMAIN user \ {"password"} |-> user[k]]

(***************************************************************************)
(* Input values: the strings requests are built from.                      *)
(***************************************************************************)
Absent == <<0>>                               \* marks a key left out
EmailLo == <<97, 64, 98, 46, 105, 111>>       \* "a@b.io"
EmailUp == <<65, 64, 98, 46, 105, 111>>       \* "A@b.io"
EmailC == <<99, 64, 98, 46, 105, 111>>        \* "c@b.io"
EmailBad == <<97, 64, 98>>                    \* "a@b"
Pw1 == <<115, 101, 99, 114, 101, 116>>        \* "secret"
Pw2 == <<83, 101, 99, 114, 101, 116>>         \* "Secret"
PwShort == <<97, 98, 99>>                     \* "abc"
NameN == <<78>>                               \* "N"
RoleAlumni == <<97, 108, 117, 109, 110, 105>> \* "alumni"

\* the dict holding the keys of r whose value is not Absent
Strip(r) == [k \in {x \in DOMAIN r : r[x] # Absent} |-> r[k]]

RegisterInputs ==
    {Strip(r) : r \in [email : {Absent, EmailLo, EmailUp, EmailC, EmailBad},
                       password : {Absent, Pw1, Pw2, PwShort},
                       name : {NameN}]}
    \cup {[email |-> EmailLo, password |-> Pw1, name |-> <<>>],
          [email |-> EmailLo, password |-> Pw1]}

LoginInputs ==
    {Strip(r) : r \in [email : {Absent, EmailLo, EmailUp, EmailC},
                       password : {<<>>, Pw1, Pw2}]}

(***************************************************************************)
(* Authentication system.                                                  *)
(***************************************************************************)
\* next((u for u in users if u['email'] == email), None), as an index
find_user_by_email(email) ==
    IF \E i \in 1..Len(users) : users[i]["email"] = email
    THEN CHOOSE i \in 1..Len(users) :
           /\ users[i]["email"] = email
           /\ \A j \in 1..(i - 1) : users[j]["email"] # email
    ELSE 0

\* jwt.encode({'user_id', 'email', 'exp': utcnow() + timedelta(days=30)})
IssueToken(user) ==
    [user_id |-> user["id"], email |-> user["email"], exp |-> now + TOKEN_DAYS]

\* an expiry check that still accepts the token at its exp time
TokenExpiredLate(tok) == tok.exp < now

\* jwt.decode raises ExpiredSignatureError once the exp time is reached
TokenExpired(tok) == tok.exp <= now

NewUser(data) ==
    [id |-> Len(users) + 1,
     email |-> Lower(data["email"]),
     password |-> data["password"],
     name |-> data["name"],
     role |-> GetOr(data, "role", RoleAlumni),
     created_at |-> now]

RegisterResp(data) ==
    LET missing == FirstMissing(data, <<"email", "password", "name">>) IN
    IF DOMAIN data = {} THEN Err(400, "Request body is required")
    ELSE IF missing # 0
      THEN Err(400, RequiredMsg(<<"email", "password", "name">>[missing]))
    ELSE IF ~validate_email(data["email"]) THEN Err(400, "Invalid email format")
    ELSE IF Len(data["password"]) < MIN_PASSWORD
      THEN Err(400, "Password must be at least 6 characters")
    ELSE IF find_user_by_email(data["email"]) # 0
      THEN Err(409, "User with this email already exists")
    ELSE Ok(201, [user |-> StripPassword(NewUser(data)),
                  token |-> IssueToken(NewUser(data))])

\* what the caller of register or login keeps from a successful response r
Grant(r) == [token |-> r.data.token, user_id |-> r.data.user["id"], at |-> now]

register(data) ==
    /\ req' = [op |-> "register", id |-> 0, data |-> data]
    /\ resp' = RegisterResp(data)
    /\ IF resp'.status = 201
       THEN /\ users' = Append(users, NewUser(data))
            /\ tokens' = tokens \cup {Grant(resp')}
       ELSE UNCHANGED <<users, tokens>>
    /\ UNCHANGED <<inflight, alumni, events, jobs, donations, posts, messages, now, issued>>

LoginResp(data) ==
    LET email == Lower(GetOr(data, "email", <<>>))
        password == GetOr(data, "password", <<>>)
        u == find_user_by_email(email)
    IN
    IF DOMAIN data = {} THEN Err(400, "Request body is required")
    ELSE IF email = <<>> \/ password = <<>>
      THEN Err(400, "Email and password are required")
    ELSE IF u = 0 \/ users[u]["password"] # password
      THEN Err(401, "Invalid email or password")
    ELSE Ok(200, [user |-> StripPassword(users[u]),
                  token |-> IssueToken(users[u])])

login(data) ==
    /\ req' = [op |-> "login", id |-> 0, data |-> data]
    /\ resp' = LoginResp(data)
    /\ tokens' = IF resp'.status = 200 THEN tokens \cup {Grant(resp')} ELSE tokens
    /\ UNCHANGED <<inflight, stores, now, issued>>

\* The Authorization header: absent, or a credential with or without the
\* "Bearer " prefix; the credential is a token this server signed or a
\* string that does not verify.
Garbage == [user_id |-> 0, email |-> <<>>, exp |-> 0]
AuthHeaders ==
    [present : {FALSE}, bearer : {FALSE}, valid : {FALSE}, tok : {Garbage}]
    \cup [present : {TRUE}, bearer : BOOLEAN, valid : {FALSE}, tok : {Garbage}]
    \cup [present : {TRUE}, bearer : BOOLEAN, valid : {TRUE},
          tok : {g.token : g \in tokens}]

TokenRequiredResp(hdr) ==
    LET u == FindById(users, hdr.tok.user_id) IN
    IF ~hdr.present THEN Err(401, "Access token is missing")
    ELSE IF ~hdr.valid THEN Err(401, "Invalid token")
    ELSE IF TokenExpired(hdr.tok) THEN Err(401, "Token has expired")
    ELSE IF u = 0 THEN Err(401, "Invalid token")
    ELSE Ok(200, users[u])

token_required(hdr) ==
    /\ req' = [op |-> "authenticate", id |-> 0, data |-> hdr]
    /\ resp' = TokenRequiredResp(hdr)
    /\ UNCHANGED <<inflight, stores, now, tokens, issued>>

\* time passes between requests: one day short of the token lifetime, or
\* exactly the token lifetime
Tick(limit) ==
    /\ \E d \in {TOKEN_DAYS - 1, TOKEN_DAYS} :
         /\ now + d <= limit
         /\ now' = now + d
    /\ UNCHANGED <<inflight, stores, tokens, req, resp, issued>>

(***************************************************************************)
(* Shared shape of the resource handlers.                                  *)
(***************************************************************************)
None == <<-1>>                                         \* Python None
StrGeneral == <<103, 101, 110, 101, 114, 97, 108>>     \* "general"
StrUpcoming == <<117, 112, 99, 111, 109, 105, 110, 103>> \* "upcoming"
StrFullTime == <<102, 117, 108, 108, 45, 116, 105, 109, 101>> \* "full-time"
StrEntry == <<101, 110, 116, 114, 121>>                \* "entry"
StrActive == <<97, 99, 116, 105, 118, 101>>            \* "active"
StrINR == <<73, 78, 82>>                               \* "INR"
StrCompleted == <<99, 111, 109, 112, 108, 101, 116, 101, 100>> \* "completed"
StrDirect == <<100, 105, 114, 101, 99, 116>>           \* "direct"
StrAnonymous == <<65, 110, 111, 110, 121, 109, 111, 117, 115>> \* "Anonymous"

\* d with d[k] = v
Put(d, k, v) == [x \in DOMAIN d \cup {k} |-> IF x = k THEN v ELSE d[x]]
\* d without the key k
Without(d, k) == [x \in DOMAIN d \ {k} |-> d[x]]

\* sub in s, for Python strings
Contains(s, sub) ==
    \E i \in 0..(Len(s) - Len(sub)) : SubSeq(s, i + 1, i + Len(sub)) = sub

\* the POST branch up to the construction of the record: the body check and
\* the required_fields loop (0: passed)
CreateError(data, required_fields) ==
    LET missing == FirstMissing(data, required_fields) IN
    IF DOMAIN data = {} THEN Err(400, "Request body is required")
    ELSE IF missing # 0 THEN Err(400, RequiredMsg(required_fields[missing]))
    ELSE Ok(0, EmptyDict)

\* an overwrite that lets the payload set the protected keys too
OverwriteAll(rec, data, protected) ==
    [k \in DOMAIN rec \cup DOMAIN data \cup {"updated_at"} |->
       IF k = "updated_at" THEN now
       ELSE IF k \in DOMAIN data THEN data[k]
       ELSE rec[k]]

\* for key, value in data.items(): if key not in protected: rec[key] = value
\* followed by rec['updated_at'] = datetime.now().isoformat()
Overwrite(rec, data, protected) ==
    [k \in DOMAIN rec \cup (DOMAIN data \ protected) \cup {"updated_at"} |->
       IF k = "updated_at" THEN now
       ELSE IF k \in DOMAIN data \ protected THEN data[k]
       ELSE rec[k]]

\* the <resource>_detail handlers of events, jobs and posts: look the record
\* up by id, then GET, PUT or DELETE
DetailResp(coll, what, id, method, data, protected) ==
    LET i == FindById(coll, id) IN
    IF i = 0 THEN Err(404, what \o " not found")
    ELSE IF method = "GET" THEN Ok(200, coll[i])
    ELSE IF method = "PUT"
      THEN IF DOMAIN data = {} THEN Err(400, "Request body is required")
           ELSE Ok(200, Overwrite(coll[i], data, protected))
    ELSE Ok(200, EmptyDict)

\* a store that an update writes to a copy of the record only
DetailStoreCopy(coll, id, method, data, protected) ==
    LET i == FindById(coll, id) IN
    IF i = 0 \/ method \in {"GET", "PUT"} THEN coll
    ELSE RemoveAt(coll, i)

DetailStore(coll, id, method, data, protected) ==
    LET i == FindById(coll, id) IN
    IF i = 0 \/ method = "GET" THEN coll
    ELSE IF method = "PUT"
      THEN IF DOMAIN data = {} THEN coll
           ELSE [coll EXCEPT ![i] = Overwrite(coll[i], data, protected)]
    ELSE RemoveAt(coll, i)

\* the history variable after a handler answered r
Issue(name, r) ==
    IF r.status = 201 /\ r.data["id"] > issued[name]
    THEN [issued EXCEPT ![name] = r.data["id"]]
    ELSE issued

Request(op, id, data) == [op |-> op, id |-> id, data |-> data]

(***************************************************************************)
(* Event management.                                                       *)
(***************************************************************************)
EventRequired == <<"title", "description", "date", "location">>

NewEvent(data) ==
    [id |-> Len(events) + 1,
     title |-> data["title"],
     description |-> data["description"],
     date |-> data["date"],
     time |-> GetOr(data, "time", <<>>),
     location |-> data["location"],
     event_type |-> GetOr(data, "event_type", StrGeneral),
     max_attendees |-> GetOr(data, "max_attendees", None),
     registration_required |-> GetOr(data, "registration_required", FALSE),
     organizer |-> GetOr(data, "organizer", <<>>),
     contact_email |-> GetOr(data, "contact_email", <<>>),
     image_url |-> GetOr(data, "image_url", <<>>),
     status |-> StrUpcoming,
     attendees |-> <<>>,
     created_at |-> now,
     updated_at |-> now]

EventCreateResp(data) ==
    LET error == CreateError(data, EventRequired) IN
    IF error.status # 0 THEN error
    ELSE Ok(201, NewEvent(data))

event_create(data) ==
    /\ req' = Request("event_create", 0, data)
    /\ resp' = EventCreateResp(data)
    /\ events' = IF resp'.status = 201 THEN Append(events, resp'.data) ELSE events
    /\ issued' = Issue("events", resp')
    /\ UNCHANGED <<inflight, users, alumni, jobs, donations, posts, messages, now, tokens>>

EventListResp(args) ==
    LET event_type == GetOr(args, "type", <<>>)
        status == GetOr(args, "status", <<>>)
        ByType(e) == event_type = <<>> \/ GetOr(e, "event_type", <<>>) = event_type
        ByStatus(e) == status = <<>> \/ GetOr(e, "status", <<>>) = status
        filtered_events == SelectSeq(SelectSeq(events, ByType), ByStatus)
    IN Ok(200, [items |-> filtered_events, total |-> Len(filtered_events)])

event_list(args) ==
    /\ req' = Request("event_list", 0, args)
    /\ resp' = EventListResp(args)
    /\ UNCHANGED <<inflight, stores, now, tokens, issued>>

event_detail(id, method, data) ==
    /\ req' = Request("event_" \o method, id, data)
    /\ resp' = DetailResp(events, "Event", id, method, data, {"id"})
    /\ events' = DetailStore(events, id, method, data, {"id"})
    /\ UNCHANGED <<inflight, users, alumni, jobs, donations, posts, messages,
                   now, tokens, issued>>

(***************************************************************************)
(* Job portal.                                                             *)
(***************************************************************************)
JobRequired == <<"title", "company", "description", "location">>

NewJob(data) ==
    [id |-> Len(jobs) + 1,
     title |-> data["title"],
     company |-> data["company"],
     description |-> data["description"],
     location |-> data["location"],
     job_type |-> GetOr(data, "job_type", StrFullTime),
     experience_level |-> GetOr(data, "experience_level", StrEntry),
     salary_range |-> GetOr(data, "salary_range", <<>>),
     requirements |-> GetOr(data, "requirements", <<>>),
     contact_email |-> GetOr(data, "contact_email", <<>>),
     application_url |-> GetOr(data, "application_url", <<>>),
     posted_by |-> GetOr(data, "posted_by", <<>>),
     status |-> StrActive,
     created_at |-> now,
     updated_at |-> now,
     expires_at |-> GetOr(data, "expires_at", <<>>)]

JobCreateResp(data) ==
    LET error == CreateError(data, JobRequired) IN
    IF error.status # 0 THEN error
    ELSE Ok(201, NewJob(data))

job_create(data) ==
    /\ req' = Request("job_create", 0, data)
    /\ resp' = JobCreateResp(data)
    /\ jobs' = IF resp'.status = 201 THEN Append(jobs, resp'.data) ELSE jobs
    /\ issued' = Issue("jobs", resp')
    /\ UNCHANGED <<inflight, users, alumni, events, donations, posts, messages, now, tokens>>

JobListResp(args) ==
    LET job_type == GetOr(args, "type", <<>>)
        location == Lower(GetOr(args, "location", <<>>))
        company == Lower(GetOr(args, "company", <<>>))
        ByType(j) == job_type = <<>> \/ GetOr(j, "job_type", <<>>) = job_type
        ByLocation(j) ==
            location = <<>> \/ Contains(Lower(GetOr(j, "location", <<>>)), location)
        ByCompany(j) ==
            company = <<>> \/ Contains(Lower(GetOr(j, "company", <<>>)), company)
        filtered_jobs == SelectSeq(SelectSeq(SelectSeq(jobs, ByType), ByLocation), ByCompany)
    IN Ok(200, [items |-> filtered_jobs, total |-> Len(filtered_jobs)])

job_list(args) ==
    /\ req' = Request("job_list", 0, args)
    /\ resp' = JobListResp(args)
    /\ UNCHANGED <<inflight, stores, now, tokens, issued>>

job_detail(id, method, data) ==
    /\ req' = Request("job_" \o method, id, data)
    /\ resp' = DetailResp(jobs, "Job", id, method, data, {"id"})
    /\ jobs' = DetailStore(jobs, id, method, data, {"id"})
    /\ UNCHANGED <<inflight, users, alumni, events, donations, posts, messages,
                   now, tokens, issued>>

(***************************************************************************)
(* Posts / feed.                                                           *)
(***************************************************************************)
PostRequired == <<"author_name", "content">>

\* a post record that takes likes from the payload when it carries them
NewPostLiked(data) ==
    [id |-> Len(posts) + 1,
     author_name |-> data["author_name"],
     author_email |-> GetOr(data, "author_email", <<>>),
     author_batch |-> GetOr(data, "author_batch", <<>>),
     content |-> data["content"],
     post_type |-> GetOr(data, "post_type", StrGeneral),
     image_url |-> GetOr(data, "image_url", <<>>),
     likes |-> GetOr(data, "likes", 0),
     comments |-> <<>>,
     tags |-> GetOr(data, "tags", <<>>),
     created_at |-> now,
     updated_at |-> now]

NewPost(data) ==
    [id |-> Len(posts) + 1,
     author_name |-> data["author_name"],
     author_email |-> GetOr(data, "author_email", <<>>),
     author_batch |-> GetOr(data, "author_batch", <<>>),
     content |-> data["content"],
     post_type |-> GetOr(data, "post_type", StrGeneral),
     image_url |-> GetOr(data, "image_url", <<>>),
     likes |-> 0,
     comments |-> <<>>,
     tags |-> GetOr(data, "tags", <<>>),
     created_at |-> now,
     updated_at |-> now]

PostCreateResp(data) ==
    LET error == CreateError(data, PostRequired) IN
    IF error.status # 0 THEN error
    ELSE Ok(201, NewPost(data))

post_create(data) ==
    /\ req' = Request("post_create", 0, data)
    /\ resp' = PostCreateResp(data)
    /\ posts' = IF resp'.status = 201 THEN Append(posts, resp'.data) ELSE posts
    /\ issued' = Issue("posts", resp')
    /\ UNCHANGED <<inflight, users, alumni, events, jobs, donations, messages, now, tokens>>

\* sorted(coll, key=lambda x: x['created_at'], reverse=True): descending,
\* and stable (records with equal keys keep their order in coll)
SortedNewestFirst(coll) ==
    LET Place(i) ==
          1 + Cardinality({j \in 1..Len(coll) :
                             \/ coll[j]["created_at"] > coll[i]["created_at"]
                             \/ /\ coll[j]["created_at"] = coll[i]["created_at"]
                                /\ j < i})
    IN [p \in 1..Len(coll) |-> coll[CHOOSE i \in 1..Len(coll) : Place(i) = p]]

\* the posts the filters of a list request keep, in the order of the store
PostFiltered(args) ==
    LET post_type == GetOr(args, "type", <<>>)
        author == Lower(GetOr(args, "author", <<>>))
        ByType(p) == post_type = <<>> \/ GetOr(p, "post_type", <<>>) = post_type
        ByAuthor(p) ==
            author = <<>> \/ Contains(Lower(GetOr(p, "author_name", <<>>)), author)
    IN SelectSeq(SelectSeq(posts, ByType), ByAuthor)

PostListResp(args) ==
    LET filtered_posts == SortedNewestFirst(PostFiltered(args))
    IN Ok(200, [items |-> filtered_posts, total |-> Len(filtered_posts)])

post_list(args) ==
    /\ req' = Request("post_list", 0, args)
    /\ resp' = PostListResp(args)
    /\ UNCHANGED <<inflight, stores, now, tokens, issued>>

post_detail(id, method, data) ==
    /\ req' = Request("post_" \o method, id, data)
    /\ resp' = DetailResp(posts, "Post", id, method, data, {"id", "created_at"})
    /\ posts' = DetailStore(posts, id, method, data, {"id", "created_at"})
    /\ UNCHANGED <<inflight, users, alumni, events, jobs, donations, messages,
                   now, tokens, issued>>

(***************************************************************************)
(* Alumni management.                                                      *)
(***************************************************************************)
AlumniRequired == <<"name", "email", "batch", "department">>

NewAlumni(data) ==
    [id |-> Len(alumni) + 1,
     name |-> data["name"],
     email |-> Lower(data["email"]),
     batch |-> data["batch"],
     department |-> data["department"],
     phone |-> GetOr(data, "phone", <<>>),
     current_company |-> GetOr(data, "current_company", <<>>),
     current_position |-> GetOr(data, "current_position", <<>>),
     location |-> GetOr(data, "location", <<>>),
     bio |-> GetOr(data, "bio", <<>>),
     linkedin |-> GetOr(data, "linkedin", <<>>),
     profile_image |-> GetOr(data, "profile_image", <<>>),
     graduation_year |-> GetOr(data, "graduation_year", <<>>),
     created_at |-> now,
     updated_at |-> now]

\* any(a['email'].lower() == data['email'].lower() for a in alumni)
AlumniEmailTaken(email) ==
    \E i \in 1..Len(alumni) : Lower(alumni[i]["email"]) = Lower(email)

AlumniCreateResp(data) ==
    LET error == CreateError(data, AlumniRequired) IN
    IF error.status # 0 THEN error
    ELSE IF ~validate_email(data["email"]) THEN Err(400, "Invalid email format")
    ELSE IF AlumniEmailTaken(data["email"])
      THEN Err(409, "Alumni with this email already exists")
    ELSE Ok(201, NewAlumni(data))

alumni_create(data) ==
    /\ req' = Request("alumni_create", 0, data)
    /\ resp' = AlumniCreateResp(data)
    /\ alumni' = IF resp'.status = 201 THEN Append(alumni, resp'.data) ELSE alumni
    /\ issued' = Issue("alumni", resp')
    /\ UNCHANGED <<inflight, users, events, jobs, donations, posts, messages, now, tokens>>

\* str(a.get('batch', '')) == batch: batch values are strings here
AlumniListResp(args) ==
    LET search == Lower(GetOr(args, "search", <<>>))
        batch == GetOr(args, "batch", <<>>)
        department == GetOr(args, "department", <<>>)
        company == Lower(GetOr(args, "company", <<>>))
        BySearch(a) ==
            \/ search = <<>>
            \/ Contains(Lower(GetOr(a, "name", <<>>)), search)
            \/ Contains(Lower(GetOr(a, "current_company", <<>>)), search)
        ByBatch(a) == batch = <<>> \/ GetOr(a, "batch", <<>>) = batch
        ByDepartment(a) ==
            \/ department = <<>>
            \/ Lower(GetOr(a, "department", <<>>)) = Lower(department)
        ByCompany(a) ==
            \/ company = <<>>
            \/ Contains(Lower(GetOr(a, "current_company", <<>>)), company)
        filtered_alumni ==
            SelectSeq(SelectSeq(SelectSeq(SelectSeq(alumni, BySearch), ByBatch),
                          ByDepartment), ByCompany)
    IN Ok(200, [items |-> filtered_alumni, total |-> Len(filtered_alumni)])

alumni_list(args) ==
    /\ req' = Request("alumni_list", 0, args)
    /\ resp' = AlumniListResp(args)
    /\ UNCHANGED <<inflight, stores, now, tokens, issued>>

\* next((a for a in alumni if a['email'].lower() == data['email'].lower()
\*       and a['id'] != alumni_id), None) is not None
AlumniEmailOfAnother(email, alumni_id) ==
    \E i \in 1..Len(alumni) :
      /\ Lower(alumni[i]["email"]) = Lower(email)
      /\ alumni[i]["id"] # alumni_id

\* the checks of the PUT branch that precede the overwrite (0: passed)
AlumniUpdateError(alumni_id, data) ==
    IF DOMAIN data = {} THEN Err(400, "Request body is required")
    ELSE IF "email" \in DOMAIN data /\ ~validate_email(data["email"])
      THEN Err(400, "Invalid email format")
    ELSE IF "email" \in DOMAIN data /\ AlumniEmailOfAnother(data["email"], alumni_id)
      THEN Err(409, "Email already exists for another alumni")
    ELSE Ok(0, EmptyDict)

AlumniDetailResp(alumni_id, method, data) ==
    LET i == FindById(alumni, alumni_id) IN
    IF i = 0 THEN Err(404, "Alumni not found")
    ELSE IF method = "GET" THEN Ok(200, alumni[i])
    ELSE IF method = "PUT"
      THEN IF AlumniUpdateError(alumni_id, data).status # 0
           THEN AlumniUpdateError(alumni_id, data)
           ELSE Ok(200, Overwrite(alumni[i], data, {"id"}))
    ELSE Ok(200, EmptyDict)

alumni_detail(alumni_id, method, data) ==
    LET i == FindById(alumni, alumni_id)
        r == AlumniDetailResp(alumni_id, method, data)
    IN
    /\ req' = Request("alumni_" \o method, alumni_id, data)
    /\ resp' = r
    /\ alumni' = IF r.status # 200 \/ method = "GET" THEN alumni
                 ELSE IF method = "PUT" THEN [alumni EXCEPT ![i] = r.data]
                 ELSE RemoveAt(alumni, i)
    /\ UNCHANGED <<inflight, users, events, jobs, donations, posts, messages,
                   now, tokens, issued>>

(***************************************************************************)
(* Donation portal.                                                        *)
(***************************************************************************)
DonationRequired == <<"donor_name", "amount", "purpose">>

\* A float is [nan, val]: not-a-number, or the number val.
RECURSIVE DigitsVal(_)
DigitsVal(s) ==
    IF s = <<>> THEN 0
    ELSE 10 * DigitsVal(SubSeq(s, 1, Len(s) - 1)) + (s[Len(s)] - 48)

\* float(s) for the strings of the model: an optional sign followed by
\* decimal digits or by "nan" (any case); anything else raises ValueError.
\* Fractions, exponents, infinities and surrounding blanks are not among
\* the inputs.
ParseFloat(s) ==
    LET signed == Len(s) > 0 /\ s[1] \in {43, 45}
        body == IF signed THEN Tail(s) ELSE s
        neg == signed /\ s[1] = 45
    IN
    IF Lower(body) = <<110, 97, 110>>
    THEN [ok |-> TRUE, value |-> [nan |-> TRUE, val |-> 0]]
    ELSE IF Len(body) > 0 /\ \A i \in 1..Len(body) : IsDigit(body[i])
    THEN [ok |-> TRUE,
          value |-> [nan |-> FALSE,
                     val |-> IF neg THEN 0 - DigitsVal(body) ELSE DigitsVal(body)]]
    ELSE [ok |-> FALSE, value |-> [nan |-> FALSE, val |-> 0]]

\* amount <= 0: every comparison with a NaN is false
FloatLeqZero(f) == ~f.nan /\ f.val <= 0

\* a + b on floats
FloatAdd(a, b) ==
    IF a.nan \/ b.nan THEN [nan |-> TRUE, val |-> 0]
    ELSE [nan |-> FALSE, val |-> a.val + b.val]

NewDonation(data) ==
    [id |-> Len(donations) + 1,
     donor_name |-> data["donor_name"],
     donor_email |-> GetOr(data, "donor_email", <<>>),
     amount |-> ParseFloat(data["amount"]).value,
     currency |-> GetOr(data, "currency", StrINR),
     purpose |-> data["purpose"],
     message |-> GetOr(data, "message", <<>>),
     anonymous |-> GetOr(data, "anonymous", FALSE),
     payment_method |-> GetOr(data, "payment_method", <<>>),
     transaction_id |-> GetOr(data, "transaction_id", <<>>),
     status |-> StrCompleted,
     created_at |-> now]

DonationCreateResp(data) ==
    LET error == CreateError(data, DonationRequired) IN
    IF error.status # 0 THEN error
    ELSE IF ~ParseFloat(data["amount"]).ok THEN Err(400, "Invalid amount format")
    ELSE IF FloatLeqZero(ParseFloat(data["amount"]).value)
      THEN Err(400, "Amount must be greater than 0")
    ELSE Ok(201, NewDonation(data))

donation_create(data) ==
    /\ req' = Request("donation_create", 0, data)
    /\ resp' = DonationCreateResp(data)
    /\ donations' = IF resp'.status = 201 THEN Append(donations, resp'.data) ELSE donations
    /\ issued' = Issue("donations", resp')
    /\ UNCHANGED <<inflight, users, alumni, events, jobs, posts, messages, now, tokens>>

\* d.get('purpose', '') == purpose, when a purpose is asked for
DonationSelected(d, args) ==
    \/ GetOr(args, "purpose", <<>>) = <<>>
    \/ GetOr(d, "purpose", <<>>) = GetOr(args, "purpose", <<>>)

\* donation['donor_name'] = 'Anonymous'; donation['donor_email'] = ''
\* for a donation whose anonymous flag is set
Redact(d) ==
    IF GetOr(d, "anonymous", FALSE)
    THEN Put(Put(d, "donor_name", StrAnonymous), "donor_email", <<>>)
    ELSE d

RECURSIVE SumAmounts(_)
SumAmounts(coll) ==
    IF coll = <<>> THEN [nan |-> FALSE, val |-> 0]
    ELSE FloatAdd(SumAmounts(SubSeq(coll, 1, Len(coll) - 1)),
                  coll[Len(coll)]["amount"])

\* donations.copy() copies the list, not the dicts in it: the loop that
\* hides anonymous donors writes into the dicts the store holds
DonationsAfterList(args) ==
    [i \in 1..Len(donations) |->
       IF DonationSelected(donations[i], args) THEN Redact(donations[i])
       ELSE donations[i]]

DonationListResp(args) ==
    LET Selected(d) == DonationSelected(d, args)
        filtered_donations == SelectSeq(DonationsAfterList(args), Selected)
    IN Ok(200, [items |-> filtered_donations,
                total |-> Len(filtered_donations),
                total_amount |-> SumAmounts(filtered_donations)])

donation_list(args) ==
    /\ req' = Request("donation_list", 0, args)
    /\ resp' = DonationListResp(args)
    /\ donations' = DonationsAfterList(args)
    /\ UNCHANGED <<inflight, users, alumni, events, jobs, posts, messages,
                   now, tokens, issued>>

DonationDetailResp(donation_id) ==
    LET i == FindById(donations, donation_id) IN
    IF i = 0 THEN Err(404, "Donation not found") ELSE Ok(200, donations[i])

donation_detail(donation_id) ==
    /\ req' = Request("donation_GET", donation_id, EmptyDict)
    /\ resp' = DonationDetailResp(donation_id)
    /\ UNCHANGED <<inflight, stores, now, tokens, issued>>

(***************************************************************************)
(* Messaging system.                                                       *)
(***************************************************************************)
MessageRequired == <<"sender_email", "recipient_email", "content">>

NewMessage(data) ==
    [id |-> Len(messages) + 1,
     sender_email |-> data["sender_email"],
     recipient_email |-> data["recipient_email"],
     content |-> data["content"],
     message_type |-> GetOr(data, "message_type", StrDirect),
     group_id |-> GetOr(data, "group_id", None),
     read |-> FALSE,
     created_at |-> now]

MessageCreateResp(data) ==
    LET error == CreateError(data, MessageRequired) IN
    IF error.status # 0 THEN error
    ELSE Ok(201, NewMessage(data))

message_create(data) ==
    /\ req' = Request("message_create", 0, data)
    /\ resp' = MessageCreateResp(data)
    /\ messages' = IF resp'.status = 201 THEN Append(messages, resp'.data) ELSE messages
    /\ issued' = Issue("messages", resp')
    /\ UNCHANGED <<inflight, users, alumni, events, jobs, donations, posts, now, tokens>>

MessageListResp(args) ==
    LET user_email == Lower(GetOr(args, "user_email", <<>>))
        message_type == GetOr(args, "type", <<>>)
        Mine(m) ==
            /\ \/ Lower(GetOr(m, "sender_email", <<>>)) = user_email
               \/ Lower(GetOr(m, "recipient_email", <<>>)) = user_email
            /\ message_type = <<>> \/ GetOr(m, "message_type", <<>>) = message_type
        filtered_messages == SortedNewestFirst(SelectSeq(messages, Mine))
    IN
    IF user_email = <<>> THEN Err(400, "user_email parameter is required")
    ELSE Ok(200, [items |-> filtered_messages, total |-> Len(filtered_messages)])

message_list(args) ==
    /\ req' = Request("message_list", 0, args)
    /\ resp' = MessageListResp(args)
    /\ UNCHANGED <<inflight, stores, now, tokens, issued>>

(***************************************************************************)
(* Requests of the model.  Each set holds a complete request body and its  *)
(* variations: a key left out, a key sent empty, another value.            *)
(***************************************************************************)
StrT1 == <<84, 49>>                 \* "T1"
StrT2 == <<84, 50>>                 \* "T2"
StrD == <<68>>                      \* "D"
Str2025 == <<50, 48, 50, 53>>       \* "2025"
StrL == <<76>>                      \* "L"
StrAcme == <<65, 99, 109, 101>>     \* "Acme"
StrAl == <<65, 108>>                \* "Al"
StrHi == <<104, 105>>               \* "hi"
StrCS == <<67, 83>>                 \* "CS"
StrNews == <<110, 101, 119, 115>>   \* "news"
StrLib == <<108, 105, 98>>          \* "lib"
StrGym == <<103, 121, 109>>         \* "gym"

\* the ids requests address: one more than a collection can hold
Ids == 1..(MaxRecords + 1)

\* base with each of keys left out in turn, and with each of empties sent
\* empty in turn
Lacking(base, keys, empties) ==
    {Without(base, k) : k \in keys} \cup {Put(base, k, <<>>) : k \in empties}

EventBase == [title |-> StrT1, description |-> StrD, date |-> Str2025,
              location |-> StrL]
EventInputs ==
    {EmptyDict, EventBase, Put(EventBase, "title", StrT2),
     Put(EventBase, "event_type", StrNews),
     Without(Without(EventBase, "title"), "date"),
     Put(Without(EventBase, "location"), "description", <<>>)}
    \cup Lacking(EventBase, {"title", "description", "date", "location"}, {"date"})
EventUpdates ==
    {EmptyDict, [title |-> StrT2], [id |-> 9], [id |-> 9, title |-> StrT1],
     [updated_at |-> 7]}
EventArgs ==
    {EmptyDict, [type |-> StrNews], [status |-> StrUpcoming],
     [type |-> StrGeneral, status |-> StrActive]}

JobBase == [title |-> StrT1, company |-> StrAcme, description |-> StrD,
            location |-> StrL]
JobInputs ==
    {EmptyDict, JobBase, Put(JobBase, "title", StrT2),
     Put(JobBase, "job_type", StrNews),
     Without(Without(JobBase, "company"), "location"),
     Put(Without(JobBase, "location"), "title", <<>>)}
    \cup Lacking(JobBase, {"title", "company", "description", "location"}, {"company"})
JobUpdates ==
    {EmptyDict, [title |-> StrT2], [id |-> 9], [id |-> 9, title |-> StrT1],
     [updated_at |-> 7]}
JobArgs ==
    {EmptyDict, [type |-> StrNews], [location |-> StrL],
     [company |-> Lower(StrAcme), type |-> StrFullTime], [company |-> StrT1]}

PostBase == [author_name |-> StrAl, content |-> StrHi]
PostInputs ==
    {EmptyDict, PostBase, Put(PostBase, "content", StrT2),
     Put(PostBase, "post_type", StrNews), [post_type |-> StrNews]}
    \cup Lacking(PostBase, {"author_name", "content"}, {"content"})
PostUpdates ==
    {EmptyDict, [content |-> StrT2], [id |-> 9], [created_at |-> 7],
     [id |-> 9, created_at |-> 7, content |-> StrHi], [updated_at |-> 7]}
PostArgs ==
    {EmptyDict, [type |-> StrNews], [author |-> Lower(StrAl)],
     [author |-> StrT1]}

AlumniBase == [name |-> StrAl, email |-> EmailLo, batch |-> Str2025,
               department |-> StrCS]
AlumniInputs ==
    {EmptyDict, Without(Without(AlumniBase, "name"), "batch")}
    \cup {Put(AlumniBase, "email", e) : e \in {EmailLo, EmailUp, EmailC, EmailBad}}
    \cup Lacking(AlumniBase, {"name", "email", "batch", "department"}, {"email"})
AlumniUpdates ==
    {EmptyDict, [name |-> StrT2], [id |-> 9, name |-> StrAl],
     [updated_at |-> 7]}
    \cup {[email |-> e] : e \in {EmailLo, EmailUp, EmailC, EmailBad}}
AlumniArgs ==
    {EmptyDict, [search |-> StrAl], [batch |-> Str2025],
     [department |-> Lower(StrCS)], [company |-> StrAcme]}

DonationBase == [donor_name |-> NameN, donor_email |-> EmailLo,
                 amount |-> <<53>>, purpose |-> StrLib]
DonationInputs ==
    {EmptyDict, DonationBase, Put(DonationBase, "purpose", StrGym),
     Put(DonationBase, "anonymous", TRUE),
     Put(DonationBase, "anonymous", FALSE),
     Put(Put(DonationBase, "anonymous", TRUE), "purpose", StrGym),
     Without(Put(DonationBase, "anonymous", TRUE), "donor_email"),
     Without(Without(DonationBase, "amount"), "purpose")}
    \cup {Put(DonationBase, "amount", a) :
            a \in {<<45, 53>>, <<48>>, <<120>>, <<110, 97, 110>>}}
    \cup Lacking(DonationBase, {"donor_name", "amount", "purpose"}, {"amount"})
DonationArgs == {EmptyDict, [purpose |-> StrLib], [purpose |-> StrGym]}

MessageBase == [sender_email |-> EmailLo, recipient_email |-> EmailC,
                content |-> StrHi]
MessageInputs ==
    {EmptyDict, MessageBase, Put(MessageBase, "sender_email", EmailUp),
     Put(MessageBase, "message_type", StrNews),
     Without(Without(MessageBase, "sender_email"), "content")}
    \cup Lacking(MessageBase, {"sender_email", "recipient_email", "content"}, {"recipient_email"})
MessageArgs ==
    {EmptyDict, [user_email |-> EmailUp], [user_email |-> EmailC],
     [user_email |-> EmailLo, type |-> StrNews], [type |-> StrDirect]}

\* The threads of the server that handle requests at the same time, and
\* what a thread holds between building a record and appending it: the
\* record, or nothing while the thread is idle.
Workers == {"w1", "w2"}
Idle == [op |-> "idle", rec |-> EmptyDict]

Init ==
    /\ users = <<>>
    /\ alumni = <<>>
    /\ events = <<>>
    /\ jobs = <<>>
    /\ donations = <<>>
    /\ posts = <<>>
    /\ messages = <<>>
    /\ now = 0
    /\ tokens = {}
    /\ req = Request("none", 0, EmptyDict)
    /\ resp = [status |-> 0, error |-> "", data |-> EmptyDict]
    /\ issued = [c \in {"alumni", "events", "jobs", "donations", "posts",
                        "messages"} |-> 0]
    /\ inflight = [w \in Workers |-> Idle]

(***************************************************************************)
(* Actions: a handler applied to any request of the model.  A create that  *)
(* succeeds needs room in the bounded collection.                          *)
(***************************************************************************)
Room(coll) == resp'.status = 201 => Len(coll) < MaxRecords

HoldsTokens == Cardinality(tokens') <= MaxTokens
Register ==
    \E data \in RegisterInputs \cup {EmptyDict} :
      register(data) /\ Len(users') <= MaxUsers /\ HoldsTokens
Login == \E data \in LoginInputs \cup {EmptyDict} : login(data) /\ HoldsTokens
Authenticate == \E hdr \in AuthHeaders : token_required(hdr)
TickAuth == Tick(MaxTime)
TickCrud == Tick(MaxStamp)

EventCreate == \E data \in EventInputs : event_create(data) /\ Room(events)
EventList == \E args \in EventArgs : event_list(args)
EventGet == \E id \in Ids : event_detail(id, "GET", EmptyDict)
EventUpdate == \E id \in Ids, data \in EventUpdates : event_detail(id, "PUT", data)
EventDelete == \E id \in Ids : event_detail(id, "DELETE", EmptyDict)

JobCreate == \E data \in JobInputs : job_create(data) /\ Room(jobs)
JobList == \E args \in JobArgs : job_list(args)
JobGet == \E id \in Ids : job_detail(id, "GET", EmptyDict)
JobUpdate == \E id \in Ids, data \in JobUpdates : job_detail(id, "PUT", data)
JobDelete == \E id \in Ids : job_detail(id, "DELETE", EmptyDict)

PostCreate == \E data \in PostInputs : post_create(data) /\ Room(posts)
PostList == \E args \in PostArgs : post_list(args)
PostGet == \E id \in Ids : post_detail(id, "GET", EmptyDict)
PostUpdate == \E id \in Ids, data \in PostUpdates : post_detail(id, "PUT", data)
PostDelete == \E id \in Ids : post_detail(id, "DELETE", EmptyDict)

AlumniCreate == \E data \in AlumniInputs : alumni_create(data) /\ Room(alumni)
AlumniList == \E args \in AlumniArgs : alumni_list(args)
AlumniGet == \E id \in Ids : alumni_detail(id, "GET", EmptyDict)
AlumniUpdate ==
    \E id \in Ids, data \in AlumniUpdates : alumni_detail(id, "PUT", data)
AlumniDelete == \E id \in Ids : alumni_detail(id, "DELETE", EmptyDict)

DonationCreate ==
    \E data \in DonationInputs : donation_create(data) /\ Room(donations)
DonationList == \E args \in DonationArgs : donation_list(args)
DonationGet == \E id \in Ids : donation_detail(id)

MessageCreate ==
    \E data \in MessageInputs : message_create(data) /\ Room(messages)
MessageList == \E args \in MessageArgs : message_list(args)

(***************************************************************************)
(* Specifications: the identity store, and each resource store.            *)
(***************************************************************************)
\* A create as the threads of the server run it: the handler validates the
\* request and builds the record, reading the length of the collection for
\* the id (Begin); the append and the response are a later step (Commit),
\* and steps of the other thread may come between the two.
PostBegin(w, data) ==
    /\ inflight[w] = Idle
    /\ IF PostCreateResp(data).status = 201
       THEN /\ inflight' = [inflight EXCEPT ![w] =
                              [op |-> "post_create", rec |-> NewPost(data)]]
            /\ UNCHANGED <<req, resp>>
       ELSE /\ req' = Request("post_create", 0, data)
            /\ resp' = PostCreateResp(data)
            /\ UNCHANGED inflight
    /\ UNCHANGED <<stores, now, tokens, issued>>

PostCommit(w) ==
    /\ inflight[w].op = "post_create"
    /\ Len(posts) < MaxRecords
    /\ posts' = Append(posts, inflight[w].rec)
    /\ req' = Request("post_create", 0, EmptyDict)
    /\ resp' = Ok(201, inflight[w].rec)
    /\ issued' = Issue("posts", resp')
    /\ inflight' = [inflight EXCEPT ![w] = Idle]
    /\ UNCHANGED <<users, alumni, events, jobs, donations, messages,
                   now, tokens>>

RegisterBegin(w, data) ==
    /\ inflight[w] = Idle
    /\ IF RegisterResp(data).status = 201
       THEN /\ inflight' = [inflight EXCEPT ![w] =
                              [op |-> "register", rec |-> NewUser(data)]]
            /\ UNCHANGED <<req, resp>>
       ELSE /\ req' = Request("register", 0, data)
            /\ resp' = RegisterResp(data)
            /\ UNCHANGED inflight
    /\ UNCHANGED <<stores, now, tokens, issued>>

RegisterCommit(w) ==
    /\ inflight[w].op = "register"
    /\ Len(users) < MaxUsers
    /\ users' = Append(users, inflight[w].rec)
    /\ req' = Request("register", 0, EmptyDict)
    /\ resp' = Ok(201, [user |-> StripPassword(inflight[w].rec),
                        token |-> IssueToken(inflight[w].rec)])
    /\ tokens' = tokens \cup {Grant(resp')}
    /\ HoldsTokens
    /\ inflight' = [inflight EXCEPT ![w] = Idle]
    /\ UNCHANGED <<alumni, events, jobs, donations, posts, messages,
                   now, issued>>

\* two threads creating posts, or registering users, at the same time
NextConcurrent ==
    \/ \E w \in Workers, data \in PostInputs : PostBegin(w, data) /\ users = <<>>
    \/ \E w \in Workers : PostCommit(w)
    \/ \E w \in Workers, data \in RegisterInputs :
         RegisterBegin(w, data) /\ posts = <<>>
    \/ \E w \in Workers : RegisterCommit(w)
SpecConcurrent == Init /\ [][NextConcurrent]_vars

NextAuth == Register \/ Login \/ Authenticate \/ TickAuth
SpecAuth == Init /\ [][NextAuth]_vars

NextEvents ==
    EventCreate \/ EventList \/ EventGet \/ EventUpdate \/ EventDelete \/ TickCrud
SpecEvents == Init /\ [][NextEvents]_vars

NextJobs == JobCreate \/ JobList \/ JobGet \/ JobUpdate \/ JobDelete \/ TickCrud
SpecJobs == Init /\ [][NextJobs]_vars

NextPosts ==
    PostCreate \/ PostList \/ PostGet \/ PostUpdate \/ PostDelete \/ TickCrud
SpecPosts == Init /\ [][NextPosts]_vars

NextAlumni ==
    AlumniCreate \/ AlumniList \/ AlumniGet \/ AlumniUpdate \/ AlumniDelete
    \/ TickCrud
SpecAlumni == Init /\ [][NextAlumni]_vars

NextDonations == DonationCreate \/ DonationList \/ DonationGet \/ TickCrud
SpecDonations == Init /\ [][NextDonations]_vars

NextMessages == MessageCreate \/ MessageList \/ TickCrud
SpecMessages == Init /\ [][NextMessages]_vars

\* No handler reads or writes a collection other than its own, so the
\* specifications of several stores together follow one store per
\* behaviour: a request is taken when at most one collection has ever
\* held a record after it.
OneStore ==
    Cardinality({c \in DOMAIN issued : issued'[c] > 0}
                \cup (IF users' # <<>> THEN {"users"} ELSE {})) <= 1

\* every resource store: creates on all six, deletes where a route exists
NextCreate ==
    \/ AlumniCreate /\ OneStore
    \/ EventCreate /\ OneStore
    \/ JobCreate /\ OneStore
    \/ DonationCreate /\ OneStore
    \/ PostCreate /\ OneStore
    \/ MessageCreate /\ OneStore
    \/ AlumniDelete \/ EventDelete \/ JobDelete \/ PostDelete
SpecCreate == Init /\ [][NextCreate]_vars

\* no collection other than this one has been created into
Only(name) == \A c \in DOMAIN issued \ {name} : issued[c] = 0

\* creates of well-formed records, updates and deletes on the four
\* collections that have an update, one collection at a time
NextUpdate ==
    \/ (\E data \in {AlumniBase, Put(AlumniBase, "email", EmailC)} :
          alumni_create(data) /\ Room(alumni)) /\ OneStore
    \/ (\E data \in {EventBase} : event_create(data) /\ Room(events)) /\ OneStore
    \/ (\E data \in {JobBase} : job_create(data) /\ Room(jobs)) /\ OneStore
    \/ (\E data \in {PostBase} : post_create(data) /\ Room(posts)) /\ OneStore
    \/ AlumniUpdate /\ Only("alumni")
    \/ EventUpdate /\ Only("events")
    \/ JobUpdate /\ Only("jobs")
    \/ PostUpdate /\ Only("posts")
    \/ AlumniDelete /\ Only("alumni")
    \/ EventDelete /\ Only("events")
    \/ JobDelete /\ Only("jobs")
    \/ PostDelete /\ Only("posts")
    \/ TickCrud
SpecUpdate == Init /\ [][NextUpdate]_vars

\* payloads that carry the fields no create takes from its payload
EventFieldInputs == {EventBase, Put(EventBase, "attendees", <<StrAl>>)}
EventFieldUpdates == {[title |-> StrT2], [attendees |-> <<StrAl>>]}
PostFieldInputs == {PostBase, Put(PostBase, "likes", 5)}
PostFieldUpdates ==
    {[content |-> StrT2], [likes |-> 5], [likes |-> 5, comments |-> <<StrHi>>]}

\* every endpoint of events and posts, one collection at a time
NextFields ==
    \/ (\E data \in EventFieldInputs : event_create(data) /\ Room(events))
       /\ OneStore
    \/ (\E data \in PostFieldInputs : post_create(data) /\ Room(posts))
       /\ OneStore
    \/ \E id \in Ids, data \in EventFieldUpdates : event_detail(id, "PUT", data)
    \/ \E id \in Ids, data \in PostFieldUpdates : post_detail(id, "PUT", data)
    \/ EventList \/ EventGet \/ EventDelete
    \/ PostList \/ PostGet \/ PostDelete
SpecFields == Init /\ [][NextFields]_vars

\* the whole application
Next ==
    \/ Register /\ OneStore
    \/ Login \/ Authenticate \/ TickAuth
    \/ NextCreate
    \/ AlumniList \/ AlumniGet \/ AlumniUpdate
    \/ EventList \/ EventGet \/ EventUpdate
    \/ JobList \/ JobGet \/ JobUpdate
    \/ DonationList \/ DonationGet
    \/ PostList \/ PostGet \/ PostUpdate
    \/ MessageList
Spec == Init /\ [][Next]_vars

(***************************************************************************)
(* Properties.                                                             *)
(***************************************************************************)
UniqueIds(coll) ==
    \A i, j \in 1..Len(coll) : i # j => coll[i]["id"] # coll[j]["id"]

\* C1: in every reachable state no two records of alumni, events, jobs or
\* posts have the same id.
C1_UniqueIds ==
    UniqueIds(alumni) /\ UniqueIds(events) /\ UniqueIds(jobs) /\ UniqueIds(posts)

\* C2: the id a create assigns is strictly greater than every id assigned
\* earlier in the collection (issued holds the highest of them), also when
\* records were deleted in between.
C2_NoIdReuse ==
    [][/\ (\E data \in AlumniInputs : alumni_create(data)) /\ resp'.status = 201
          => resp'.data["id"] > issued["alumni"]
       /\ (\E data \in EventInputs : event_create(data)) /\ resp'.status = 201
          => resp'.data["id"] > issued["events"]
       /\ (\E data \in JobInputs : job_create(data)) /\ resp'.status = 201
          => resp'.data["id"] > issued["jobs"]
       /\ (\E data \in PostInputs : post_create(data)) /\ resp'.status = 201
          => resp'.data["id"] > issued["posts"]]_vars

\* get(id) on a collection
GetResp(coll, id) == DetailResp(coll, "Record", id, "GET", EmptyDict, {})

\* the ids held by the records of coll other than the id deleted
OtherIds(coll, id) == {coll[i]["id"] : i \in 1..Len(coll)} \ {id}

\* a delete that succeeded on before, leaving after: get(id) now answers 404
\* and get on every other id answers what it answered before
DeleteContract(before, after, id) ==
    /\ GetResp(after, id).status = 404
    /\ \A other \in OtherIds(before, id) :
         GetResp(after, other) = GetResp(before, other)

\* C3: after a delete(id) that succeeded, get(id) fails with 404 and every
\* other record is still returned unchanged by get on its own id.
C3_DeletedIsGone ==
    [][/\ \A id \in Ids :
            event_detail(id, "DELETE", EmptyDict) /\ resp'.status = 200
            => DeleteContract(events, events', id)
       /\ \A id \in Ids :
            post_detail(id, "DELETE", EmptyDict) /\ resp'.status = 200
            => DeleteContract(posts, posts', id)
       /\ \A id \in Ids :
            job_detail(id, "DELETE", EmptyDict) /\ resp'.status = 200
            => DeleteContract(jobs, jobs', id)
       /\ \A id \in Ids :
            alumni_detail(id, "DELETE", EmptyDict) /\ resp'.status = 200
            => DeleteContract(alumni, alumni', id)]_vars

\* some record of coll holds email, compared ignoring case
EmailHeld(coll, email) ==
    \E i \in 1..Len(coll) : Lower(coll[i]["email"]) = Lower(email)

UniqueEmails(coll) ==
    \A i, j \in 1..Len(coll) :
      i # j => Lower(coll[i]["email"]) # Lower(coll[j]["email"])

\* C4: registering an email that is already registered, compared ignoring
\* case, answers 409 and adds no user, whatever password and name are sent
\* with it; so no two users ever have emails equal ignoring case.
C4_RegisterConflict ==
    [][/\ \A data \in RegisterInputs :
            /\ register(data)
            /\ FirstMissing(data, <<"email", "password", "name">>) = 0
            /\ Len(data["password"]) >= MIN_PASSWORD
            /\ EmailHeld(users, data["email"])
            => resp'.status = 409 /\ users' = users
       /\ UniqueEmails(users')]_vars

\* C5: no two alumni records have emails equal ignoring case, after any
\* sequence of alumni creates, updates and deletes.
C5_UniqueAlumniEmails == UniqueEmails(alumni)

\* the donor fields get-by-id answers for donation id
DonorShown(coll, id) ==
    <<GetResp(coll, id).data["donor_name"], GetResp(coll, id).data["donor_email"]>>

\* C6: get-by-id of a donation created with anonymous=true returns the
\* donor_name and donor_email supplied at creation: a create stores them as
\* sent, and no later request changes what get-by-id returns.
C6_GetUnredacted ==
    [][/\ \A data \in DonationInputs :
            /\ donation_create(data)
            /\ resp'.status = 201
            /\ GetOr(data, "anonymous", FALSE)
            => DonorShown(donations', resp'.data["id"])
               = <<data["donor_name"], GetOr(data, "donor_email", <<>>)>>
       /\ \A id \in Ids :
            /\ GetResp(donations, id).status = 200
            /\ GetResp(donations, id).data["anonymous"]
            => DonorShown(donations', id) = DonorShown(donations, id)]_vars

\* a list or get-by-id request on any collection
ReadStep ==
    \/ \E args \in AlumniArgs : alumni_list(args)
    \/ \E args \in EventArgs : event_list(args)
    \/ \E args \in JobArgs : job_list(args)
    \/ \E args \in DonationArgs : donation_list(args)
    \/ \E args \in PostArgs : post_list(args)
    \/ \E args \in MessageArgs : message_list(args)
    \/ \E id \in Ids : alumni_detail(id, "GET", EmptyDict)
    \/ \E id \in Ids : event_detail(id, "GET", EmptyDict)
    \/ \E id \in Ids : job_detail(id, "GET", EmptyDict)
    \/ \E id \in Ids : donation_detail(id)
    \/ \E id \in Ids : post_detail(id, "GET", EmptyDict)

\* C7: every list and get-by-id request leaves the stored records of all
\* seven collections unchanged; the donation list redacts in its response
\* only.
C7_ReadsAreReadOnly == [][ReadStep => stores' = stores]_vars

\* data lacks one of the required fields: the key is absent or sent empty
Lacks(data, required) ==
    \E i \in 1..Len(required) : Falsy(data, required[i])

\* the create was answered 400 naming the first lacking field in declared
\* order, and stored nothing
RejectedNamingFirst(data, required, before, after) ==
    /\ after = before
    /\ resp'.status = 400
    /\ \E i \in 1..Len(required) :
         /\ Falsy(data, required[i])
         /\ \A j \in 1..(i - 1) : ~Falsy(data, required[j])
         /\ resp'.error = required[i] \o " is required"

\* the create was answered 201 and appended exactly the returned record,
\* whose id is the size of the collection before the insert plus one
Created(before, after) ==
    /\ resp'.status = 201
    /\ after = Append(before, resp'.data)
    /\ resp'.data["id"] = Len(before) + 1

\* the contract of one create as stated: lacking a field, rejected naming
\* it; complete and valid, created
CreateContract(step, data, required, valid, before, after) ==
    step => /\ Lacks(data, required)
               => RejectedNamingFirst(data, required, before, after)
            /\ ~Lacks(data, required) /\ valid => Created(before, after)

\* the same, with the empty body told apart: it is answered 400 "Request
\* body is required"
CreateContractBody(step, data, required, valid, before, after) ==
    step => /\ DOMAIN data = {}
               => after = before /\ resp' = Err(400, "Request body is required")
            /\ DOMAIN data # {} /\ Lacks(data, required)
               => RejectedNamingFirst(data, required, before, after)
            /\ ~Lacks(data, required) /\ valid => Created(before, after)

AlumniValid(data) ==
    validate_email(data["email"]) /\ ~EmailHeld(alumni, data["email"])

DonationValid(data) ==
    /\ ParseFloat(data["amount"]).ok
    /\ ~ParseFloat(data["amount"]).value.nan
    /\ ParseFloat(data["amount"]).value.val > 0

\* C8 (as stated): on every resource collection, a create lacking a required
\* field answers 400 naming the first such field and stores nothing; a
\* create with all required fields, well-formed and unique, answers 201,
\* appends one record and gives it id = size before + 1.
C8_CreateContract ==
    [][/\ req'.op = "alumni_create" =>
            CreateContract(alumni_create(req'.data), req'.data, AlumniRequired,
                           AlumniValid(req'.data), alumni, alumni')
       /\ req'.op = "event_create" =>
            CreateContract(event_create(req'.data), req'.data, EventRequired,
                           TRUE, events, events')
       /\ req'.op = "job_create" =>
            CreateContract(job_create(req'.data), req'.data, JobRequired,
                           TRUE, jobs, jobs')
       /\ req'.op = "donation_create" =>
            CreateContract(donation_create(req'.data), req'.data, DonationRequired,
                           DonationValid(req'.data), donations, donations')
       /\ req'.op = "post_create" =>
            CreateContract(post_create(req'.data), req'.data, PostRequired,
                           TRUE, posts, posts')
       /\ req'.op = "message_create" =>
            CreateContract(message_create(req'.data), req'.data, MessageRequired,
                           TRUE, messages, messages')]_vars

\* C8 (amended): the same for every create whose body is not empty; a
\* create with an empty body answers 400 "Request body is required" and
\* stores nothing.
C8_CreateContractBody ==
    [][/\ req'.op = "alumni_create" =>
            CreateContractBody(alumni_create(req'.data), req'.data, AlumniRequired,
                               AlumniValid(req'.data), alumni, alumni')
       /\ req'.op = "event_create" =>
            CreateContractBody(event_create(req'.data), req'.data, EventRequired,
                               TRUE, events, events')
       /\ req'.op = "job_create" =>
            CreateContractBody(job_create(req'.data), req'.data, JobRequired,
                               TRUE, jobs, jobs')
       /\ req'.op = "donation_create" =>
            CreateContractBody(donation_create(req'.data), req'.data, DonationRequired,
                               DonationValid(req'.data), donations, donations')
       /\ req'.op = "post_create" =>
            CreateContractBody(post_create(req'.data), req'.data, PostRequired,
                               TRUE, posts, posts')
       /\ req'.op = "message_create" =>
            CreateContractBody(message_create(req'.data), req'.data, MessageRequired,
                               TRUE, messages, messages')]_vars

\* two jobs were created and the second deleted; a create lacking a field
\* in a body that is not empty was then rejected
C8_Witness ==
    /\ req.op = "job_create"
    /\ resp.status = 400
    /\ Lacks(req.data, JobRequired)
    /\ DOMAIN req.data # {}
    /\ Len(jobs) = 1
    /\ jobs[1]["id"] = 1
    /\ issued["jobs"] = 2

\* the answer to a token presented with the Bearer prefix
Presented(tok) ==
    TokenRequiredResp([present |-> TRUE, bearer |-> TRUE, valid |-> TRUE,
                       tok |-> tok])

\* C9: a token issued by register or login for a user resolves to the user
\* with that id whenever it is presented less than 30 days after its issue,
\* whatever was done in between, and is answered 401 from 30 days on.
C9_TokenLifetime ==
    \A g \in tokens :
      IF now - g.at < TOKEN_DAYS
      THEN Presented(g.token).status = 200
           /\ Presented(g.token).data["id"] = g.user_id
      ELSE Presented(g.token).status = 401

\* the second user's token was accepted 29 days after its issue
C9_Witness ==
    /\ req.op = "authenticate"
    /\ resp.status = 200
    /\ resp.data["id"] = 2
    /\ \E g \in tokens :
         /\ g.token = req.data.tok
         /\ g.user_id = 2
         /\ now - g.at = TOKEN_DAYS - 1

\* C10: a login with non-empty email and password answers 200 with the
\* user (password removed) exactly when some user's email equals the email
\* ignoring case and that user's password equals the password; otherwise
\* 401; the users are unchanged either way.
C10_LoginContract ==
    [][\A data \in LoginInputs :
         /\ login(data)
         /\ ~Falsy(data, "email")
         /\ ~Falsy(data, "password")
         => /\ users' = users
            /\ IF \E i \in 1..Len(users) :
                    /\ Lower(users[i]["email"]) = Lower(data["email"])
                    /\ users[i]["password"] = data["password"]
               THEN /\ resp'.status = 200
                    /\ \E i \in 1..Len(users) :
                         /\ Lower(users[i]["email"]) = Lower(data["email"])
                         /\ users[i]["password"] = data["password"]
                         /\ resp'.data.user = StripPassword(users[i])
               ELSE resp'.status = 401]_vars

\* an update of the record with this id by data, taking before to after:
\* an absent id is answered 404 and changes nothing; an update that
\* succeeds leaves the record its id and the other protected keys, and the
\* record holds every other key of data with the value data gives it
UpdateContract(before, after, id, data, protected) ==
    LET i == FindById(before, id) IN
    IF i = 0 THEN resp'.status = 404 /\ after = before
    ELSE IF resp'.status # 200 THEN TRUE
    ELSE /\ Len(after) = Len(before)
         /\ \A k \in protected : after[i][k] = before[i][k]
         /\ \A k \in DOMAIN data \ protected :
              k \in DOMAIN after[i] /\ after[i][k] = data[k]

\* UpdateContract for the keys other than updated_at of an update that
\* succeeded; updated_at is stamped with the current time, and an update
\* that was rejected changes nothing
UpdateContractStamped(before, after, id, data, protected) ==
    LET i == FindById(before, id) IN
    IF i = 0 THEN resp'.status = 404 /\ after = before
    ELSE IF resp'.status # 200 THEN after = before
    ELSE /\ Len(after) = Len(before)
         /\ \A k \in protected : after[i][k] = before[i][k]
         /\ \A k \in DOMAIN data \ (protected \cup {"updated_at"}) :
              k \in DOMAIN after[i] /\ after[i][k] = data[k]
         /\ after[i]["updated_at"] = now

\* C11 as stated: update never changes the id of the record it updates, and
\* for Post never changes created_at, even when the payload supplies them;
\* every other key in the payload is set to the supplied value; update on an
\* id that is not in the collection answers 404 and changes nothing.
C11_UpdateContract ==
    [][/\ req'.op = "alumni_PUT" =>
            UpdateContract(alumni, alumni', req'.id, req'.data, {"id"})
       /\ req'.op = "event_PUT" =>
            UpdateContract(events, events', req'.id, req'.data, {"id"})
       /\ req'.op = "job_PUT" =>
            UpdateContract(jobs, jobs', req'.id, req'.data, {"id"})
       /\ req'.op = "post_PUT" =>
            UpdateContract(posts, posts', req'.id, req'.data,
                           {"id", "created_at"})]_vars

\* C11 amended: an update that succeeds never changes the id of the record it
\* updates, and for Post never changes created_at; every other key in the
\* payload except updated_at is set to the supplied value and updated_at is
\* set to the current time; an update that is rejected, or on an id not in
\* the collection (404), changes nothing.
C11_UpdateContractStamped ==
    [][/\ req'.op = "alumni_PUT" =>
            UpdateContractStamped(alumni, alumni', req'.id, req'.data, {"id"})
       /\ req'.op = "event_PUT" =>
            UpdateContractStamped(events, events', req'.id, req'.data, {"id"})
       /\ req'.op = "job_PUT" =>
            UpdateContractStamped(jobs, jobs', req'.id, req'.data, {"id"})
       /\ req'.op = "post_PUT" =>
            UpdateContractStamped(posts, posts', req'.id, req'.data,
                                  {"id", "created_at"})]_vars

\* a post created at time 0 was updated later with a payload carrying id,
\* created_at and content: it holds the content and kept id and created_at
C11_Witness ==
    /\ req.op = "post_PUT"
    /\ resp.status = 200
    /\ req.data = [id |-> 9, created_at |-> 7, content |-> StrHi]
    /\ \E i \in 1..Len(posts) :
         /\ posts[i]["id"] = req.id
         /\ posts[i]["content"] = StrHi
         /\ posts[i]["created_at"] = 0
         /\ posts[i]["updated_at"] = now
         /\ now > 0

\* s from its last element to its first
Reversed(s) == [p \in 1..Len(s) |-> s[Len(s) + 1 - p]]

\* C12: in every posts list response, of any two posts it contains the one
\* created later comes first, after any updates and deletes: the response
\* is the selected posts in the reverse of their creation order (the store
\* holds the posts in creation order).
C12_NewestFirst ==
    [][req'.op = "post_list" =>
         resp'.data.items = Reversed(PostFiltered(req'.data))]_vars

\* C13: every stored donation has a numeric amount strictly greater than 0,
\* because a create whose amount is not numeric or not above 0 is rejected
\* and stores nothing.
C13_PositiveAmounts ==
    \A i \in 1..Len(donations) :
      /\ ~donations[i]["amount"].nan
      /\ donations[i]["amount"].val > 0

\* the values the records of coll hold under key
Held(coll, key) == {coll[i][key] : i \in 1..Len(coll)}

\* C14 as stated: in every reachable state every event has attendees equal
\* to the empty list and every post has likes equal to 0 and comments equal
\* to the empty list.
C14_FieldsKeepCreationValue ==
    /\ \A i \in 1..Len(events) : events[i]["attendees"] = <<>>
    /\ \A i \in 1..Len(posts) :
         posts[i]["likes"] = 0 /\ posts[i]["comments"] = <<>>

\* a step on coll: a create stores the field with its creation value
\* whatever the payload carries, an update whose payload carries the field
\* sets it, and every other request leaves the values held as they were
FieldContract(before, after, create, update, key, initial) ==
    IF req'.op = create
    THEN IF resp'.status = 201
         THEN after = Append(before, resp'.data) /\ resp'.data[key] = initial
         ELSE after = before
    ELSE IF req'.op = update /\ key \in DOMAIN req'.data THEN TRUE
    ELSE Held(after, key) \subseteq Held(before, key)

\* C14 amended: attendees of an event, and likes and comments of a post, are
\* the empty list, 0 and the empty list at creation and are changed by no
\* endpoint other than an update whose payload supplies the field.
C14_OnlyUpdateSets ==
    [][/\ FieldContract(events, events', "event_create", "event_PUT",
                        "attendees", <<>>)
       /\ FieldContract(posts, posts', "post_create", "post_PUT", "likes", 0)
       /\ FieldContract(posts, posts', "post_create", "post_PUT",
                        "comments", <<>>)]_vars

\* a post whose likes an update had set to 5 kept them through an update
\* whose payload carries no likes
C14_Witness ==
    /\ req.op = "post_PUT"
    /\ resp.status = 200
    /\ "likes" \notin DOMAIN req.data
    /\ resp.data["likes"] = 5

\* an update of the record at an id that before holds answers 200 with
\* the record as stored, stamped with the current time
UpdateAnswered(before, after, id) ==
    LET i == FindById(before, id) IN
    i # 0 => /\ resp'.status = 200
             /\ resp'.data = after[i]
             /\ after[i]["updated_at"] = now

\* UpdateAnswered for a payload that is not the empty object; the empty
\* object is answered 400 and changes nothing; an absent id is answered 404
UpdateAnsweredBody(before, after, id, data) ==
    LET i == FindById(before, id) IN
    IF i = 0 THEN resp'.status = 404 /\ after = before
    ELSE IF DOMAIN data = {}
      THEN resp' = Err(400, "Request body is required") /\ after = before
    ELSE /\ resp'.status = 200
         /\ resp'.data = after[i]
         /\ after[i]["updated_at"] = now

\* C15 as stated: for Event, Job and Post an update on an id present in the
\* collection answers 200 with the updated record and stamps updated_at,
\* for any payload, the empty object included.
C15_UpdateSucceeds ==
    [][/\ req'.op = "event_PUT" => UpdateAnswered(events, events', req'.id)
       /\ req'.op = "job_PUT" => UpdateAnswered(jobs, jobs', req'.id)
       /\ req'.op = "post_PUT" => UpdateAnswered(posts, posts', req'.id)]_vars

\* C15 amended: for Event, Job and Post an update fails only when the id is
\* absent (404) or the payload is the empty object (400, nothing changed);
\* for an id present and any other payload it answers 200 with the updated
\* record and stamps updated_at.
C15_UpdateSucceedsBody ==
    [][/\ req'.op = "event_PUT" =>
            UpdateAnsweredBody(events, events', req'.id, req'.data)
       /\ req'.op = "job_PUT" =>
            UpdateAnsweredBody(jobs, jobs', req'.id, req'.data)
       /\ req'.op = "post_PUT" =>
            UpdateAnsweredBody(posts, posts', req'.id, req'.data)]_vars

\* a job created at time 0 was updated later: the answer is the stored job
\* with the new title and the time of the update
C15_Witness ==
    /\ req.op = "job_PUT"
    /\ resp.status = 200
    /\ req.data = [title |-> StrT2]
    /\ now > 0
    /\ \E i \in 1..Len(jobs) :
         /\ jobs[i] = resp.data
         /\ jobs[i]["id"] = req.id
         /\ jobs[i]["title"] = StrT2
         /\ jobs[i]["created_at"] = 0
         /\ jobs[i]["updated_at"] = now

\* C16: two creates on one collection that are handled at the same time,
\* the read of the collection size and the append being separate steps,
\* never give the same id to the two records they create: with no delete
\* in between, the ids of the stored posts and of the stored users are
\* distinct.
C16_ConcurrentIds == UniqueIds(posts) /\ UniqueIds(users)

====
